---- MODULE Spec2Model ----
(***************************************************************************)
(* A model of the selection-bias meme pipeline:                            *)
(*   src/step4_create_block_letter.py   create_block_letter_s              *)
(*   src/step5_create_masked.py         create_masked_stipple              *)
(*   src/create_meme.py                 create_statistics_meme             *)
(*                                                                         *)
(* numpy arrays are objects on a heap (a sequence; an array's identity is  *)
(* its index), so that copying and aliasing are different things.  An      *)
(* array is [shape |-> <<d1, ..., dn>>, data |-> row-major pixels].        *)
(*                                                                         *)
(* A float pixel in [0, 1] is the integer number of 1/510ths it holds:     *)
(* 0.0 is 0, 0.5 is 255, 1.0 is 510 (One).  With that unit                 *)
(* (x * 255).astype(uint8) is x \div 2 and u / 255.0 is 2 * u, so the      *)
(* 8-bit round trip is not the identity (0.5 comes back as 254/510).       *)
(***************************************************************************)
EXTENDS Integers, Sequences, FiniteSets, TLC

VARIABLES
    pc,              \* position of the running function
    heap,            \* the arrays, by identity
    heap0,           \* history: the heap when the running call was entered
    raised,          \* the exception that left the function, or NoError
    \* create_masked_stipple
    stipple_img,     \* argument (array id)
    mask_img,        \* argument (array id)
    threshold,       \* argument
    masked_stipple,  \* the returned array id (0: nothing returned)
    round,           \* 1: first application, 2: re-application to its own output
    prev,            \* history: the first application's result (round 2)
    \* create_block_letter_s
    height,          \* argument
    width,           \* argument
    ratio_tenths,    \* argument font_size_ratio, in tenths
    img,             \* the PIL image being drawn
    font_size,       \* local
    font,            \* local: 0 is None, else the font that was loaded
    font_idx,        \* position of the loop over font_paths
    probes,          \* history: what the loop found at each path it visited
    block_letter,    \* the returned array id (0: nothing returned)
    \* create_statistics_meme
    args,            \* the four image arguments (array ids), as the caller passed them
    panel_imgs,      \* the four local names, rebound by ensure_size
    canon,           \* (h, w) once read from original_img.shape, <<>> before
    step,            \* position of the running loop
    ensured,         \* history: what each ensure_size call was given and gave back
    dpi,             \* argument
    background_color,\* argument
    fig,             \* the matplotlib figure being built
    file,            \* what is at output_path
    writes,          \* how many times output_path was opened for writing
    report           \* the summary printed at the end

sharedVars == <<pc, heap, heap0, raised>>
maskVars == <<stipple_img, mask_img, threshold, masked_stipple, round, prev>>
letterVars == <<height, width, ratio_tenths, img, font_size, font, font_idx,
                probes, block_letter>>
memeVars == <<args, panel_imgs, canon, step, ensured, dpi, background_color,
              fig, file, writes, report>>
vars == <<sharedVars, maskVars, letterVars, memeVars>>

----------------------------------------------------------------------------
\* Bounds and units

\* Arrays of the model hold at most MaxArea pixels (height * width).
MaxArea == 4

\* The largest 8-bit value.
MaxU8 == 255

\* 1.0, 0.5 in pixel units of 1/510.
One == 2 * MaxU8
Half == MaxU8

PixelValues == {0, Half, One}
Thresholds == {0, Half, One}

Shapes == {s \in (1..MaxArea) \X (1..MaxArea) : s[1] * s[2] <= MaxArea}

RECURSIVE Area(_)
Area(shape) == IF shape = <<>> THEN 1 ELSE Head(shape) * Area(Tail(shape))

ArraysOf(shape, values) ==
    {[shape |-> shape, data |-> d] : d \in [1..Area(shape) -> values]}

NoError == [kind |-> "none", shapes |-> <<>>]
EmptyArray == [shape |-> <<0, 0>>, data |-> <<>>]

----------------------------------------------------------------------------
\* create_masked_stipple (src/step5_create_masked.py)

\* stipple_img.shape != mask_img.shape
ShapesDifferHeightOnly(a, b) == a.shape[1] # b.shape[1]
ShapesDiffer(a, b) == a.shape # b.shape

\* raise ValueError(f"... stipple_img: {shape}, mask_img: {shape}")
ShapeError(a, b) == [kind |-> "ValueError", shapes |-> <<a.shape, b.shape>>]

\* stipple_img.copy(): a new array object holding the same pixels
CopyArrayAlias(hp, id) == [heap |-> hp, ref |-> id]
CopyArray(hp, id) == [heap |-> Append(hp, hp[id]), ref |-> Len(hp) + 1]

\* mask_img < threshold: the boolean array of the excluded region
MaskAreasInclusive(m, t) == [k \in 1..Len(m.data) |-> m.data[k] <= t]
MaskAreas(m, t) == [k \in 1..Len(m.data) |-> m.data[k] < t]

\* masked_stipple[mask_areas] = 1.0
WhitenInverts(arr, areas) ==
    [arr EXCEPT !.data = [k \in 1..Len(arr.data) |->
                            IF areas[k] THEN One - arr.data[k] ELSE arr.data[k]]]
Whiten(arr, areas) ==
    [arr EXCEPT !.data = [k \in 1..Len(arr.data) |->
                            IF areas[k] THEN One ELSE arr.data[k]]]

\* The whole call.  A boolean index of another shape than the indexed array
\* makes numpy raise IndexError (reached only if the shape check lets a
\* mismatch through).
CreateMaskedStipple ==
    /\ pc = "mask_entry"
    /\ heap0' = heap
    /\ IF ShapesDiffer(heap[stipple_img], heap[mask_img])
       THEN /\ raised' = ShapeError(heap[stipple_img], heap[mask_img])
            /\ pc' = "mask_raised"
            /\ UNCHANGED <<heap, masked_stipple>>
       ELSE LET c == CopyArray(heap, stipple_img)
                areas == MaskAreas(heap[mask_img], threshold)
            IN  IF heap[mask_img].shape # c.heap[c.ref].shape
                THEN /\ raised' = [kind |-> "IndexError", shapes |-> <<>>]
                     /\ pc' = "mask_raised"
                     /\ heap' = c.heap
                     /\ UNCHANGED masked_stipple
                ELSE /\ heap' = [c.heap EXCEPT ![c.ref] = Whiten(c.heap[c.ref], areas)]
                     /\ masked_stipple' = c.ref
                     /\ pc' = "mask_returned"
                     /\ UNCHANGED raised
    /\ UNCHANGED <<stipple_img, mask_img, threshold, round, prev>>
    /\ UNCHANGED <<letterVars, memeVars>>

\* The caller writes a pixel of the array it was handed back: black becomes
\* white, anything else black.
CallerWritesResult ==
    /\ pc = "mask_returned"
    /\ \E k \in 1..Len(heap[masked_stipple].data) :
          heap' = [heap EXCEPT ![masked_stipple].data[k] = IF @ = 0 THEN One ELSE 0]
    /\ pc' = "mask_written"
    /\ UNCHANGED <<heap0, raised, stipple_img, mask_img, threshold,
                   masked_stipple, round, prev>>
    /\ UNCHANGED <<letterVars, memeVars>>

\* The caller feeds the result back in, with the same mask and threshold.
CallerReapplies ==
    /\ pc = "mask_returned"
    /\ round = 1
    /\ prev' = heap[masked_stipple]
    /\ stipple_img' = masked_stipple
    /\ masked_stipple' = 0
    /\ round' = 2
    /\ pc' = "mask_entry"
    /\ UNCHANGED <<heap, heap0, raised, mask_img, threshold>>
    /\ UNCHANGED <<letterVars, memeVars>>

MaskIdle ==
    /\ stipple_img = 0
    /\ mask_img = 0
    /\ threshold = Half
    /\ masked_stipple = 0
    /\ round = 1
    /\ prev = EmptyArray

MaskInputs ==
    /\ pc = "mask_entry"
    /\ \E ss \in Shapes, ms \in Shapes :
          \E s \in ArraysOf(ss, PixelValues), m \in ArraysOf(ms, PixelValues) :
             heap = <<s, m>>
    /\ heap0 = heap
    /\ raised = NoError
    /\ stipple_img = 1
    /\ mask_img = 2
    /\ threshold \in Thresholds
    /\ masked_stipple = 0
    /\ round = 1
    /\ prev = EmptyArray

MaskNext == CreateMaskedStipple \/ CallerWritesResult \/ CallerReapplies

----------------------------------------------------------------------------
\* create_block_letter_s (src/step4_create_block_letter.py)

\* Image sides of the model run from -1 (negative) over 0 to MaxSide.
MaxSide == 3

\* len(font_paths)
NumFontPaths == 10

\* The fonts that are not entries of font_paths.
ArialByName == NumFontPaths + 1
DefaultFont == NumFontPaths + 2

\* Pixel extent of the glyph in the fixed-size default font.
DefaultGlyph == 2

\* Bearings (the bounding box's offset from the draw origin) run 0..MaxBearing.
MaxBearing == 1

Min(a, b) == IF a <= b THEN a ELSE b

\* int(x) of the rational n / d, d > 0: truncation towards zero
IntTrunc(n, d) == IF n >= 0 THEN n \div d ELSE -((-n) \div d)

NoImage == [size |-> <<0, 0>>, px |-> <<>>]

\* Image.new('L', (width, height), color=255); Pillow refuses a negative side
PilNewRefuses(w, h) == w < 0 \/ h < 0
PilNew(w, h) == [size |-> <<w, h>>, px |-> [k \in 1..(w * h) |-> MaxU8]]

\* int(min(height, width) * font_size_ratio)
FontSize(h, w, tenths) == IntTrunc(Min(h, w) * tenths, 10)

\* ImageFont.truetype(path, size) raises for a size that is not positive, and
\* for a file it cannot read as a font (ok = FALSE)
TruetypeLoads(size, ok) == ok /\ size > 0

\* Where the loop goes after a font loaded (break) and after a path that is
\* absent or failed to load (next path)
AfterLoadedNoBreak(i) == i + 1
AfterLoaded(i) == NumFontPaths + 1
AfterSkipped(i) == i + 1

\* lines 38-46: the canvas, the font size, font = None
LetterNewImage ==
    /\ pc = "letter_entry"
    /\ heap0' = heap
    /\ IF PilNewRefuses(width, height)
       THEN /\ raised' = [kind |-> "ValueError", shapes |-> <<>>]
            /\ pc' = "letter_raised"
            /\ UNCHANGED <<img, font_size, font, font_idx>>
       ELSE /\ img' = PilNew(width, height)
            /\ font_size' = FontSize(height, width, ratio_tenths)
            /\ font' = 0
            /\ font_idx' = 1
            /\ pc' = "letter_fonts"
            /\ UNCHANGED raised
    /\ UNCHANGED <<heap, height, width, ratio_tenths, probes, block_letter>>
    /\ UNCHANGED <<maskVars, memeVars>>

\* lines 66-72, one iteration: os.path.exists(font_path) is False
FontPathAbsent ==
    /\ pc = "letter_fonts"
    /\ font_idx <= NumFontPaths
    /\ probes' = Append(probes, [path |-> font_idx, found |-> "absent"])
    /\ font_idx' = AfterSkipped(font_idx)
    /\ UNCHANGED <<pc, heap, heap0, raised, height, width, ratio_tenths, img,
                   font_size, font, block_letter>>
    /\ UNCHANGED <<maskVars, memeVars>>

\* one iteration: the path exists, and truetype raises or loads
FontPathExists ==
    /\ pc = "letter_fonts"
    /\ font_idx <= NumFontPaths
    /\ \E ok \in BOOLEAN :
          IF TruetypeLoads(font_size, ok)
          THEN /\ font' = font_idx
               /\ probes' = Append(probes, [path |-> font_idx, found |-> "loaded"])
               /\ font_idx' = AfterLoaded(font_idx)
          ELSE /\ probes' = Append(probes, [path |-> font_idx, found |-> "failed"])
               /\ font_idx' = AfterSkipped(font_idx)
               /\ UNCHANGED font
    /\ UNCHANGED <<pc, heap, heap0, raised, height, width, ratio_tenths, img,
                   font_size, block_letter>>
    /\ UNCHANGED <<maskVars, memeVars>>

\* lines 74-81: after the loop, the by-name font or the built-in one
LetterFallbackFont ==
    /\ pc = "letter_fonts"
    /\ font_idx > NumFontPaths
    /\ IF font = 0
       THEN \E ok \in BOOLEAN :
               font' = IF TruetypeLoads(font_size, ok) THEN ArialByName
                       ELSE DefaultFont
       ELSE UNCHANGED font
    /\ pc' = "letter_draw"
    /\ UNCHANGED <<heap, heap0, raised, height, width, ratio_tenths, img,
                   font_size, font_idx, probes, block_letter>>
    /\ UNCHANGED <<maskVars, memeVars>>

\* draw.textbbox((0, 0), letter, font): the ink's box relative to the origin.
\* A scalable font's glyph is as large as the font size, the default font's
\* is fixed; b is the bearing.
TextBBox(f, size, b) ==
    LET ext == IF f = DefaultFont THEN DefaultGlyph ELSE size
    IN  <<b, b, b + ext, b + ext>>

\* draw.text((x, y), letter, fill=0, font): the ink lands at the origin plus
\* the box, clipped to the canvas
DrawText(im, x, y, bbox) ==
    LET w == im.size[1]
        Ink(k) == LET r == (k - 1) \div w
                      c == (k - 1) % w
                  IN  /\ x + bbox[1] <= c /\ c < x + bbox[3]
                      /\ y + bbox[2] <= r /\ r < y + bbox[4]
    IN  [im EXCEPT !.px = [k \in 1..Len(im.px) |->
                             IF Ink(k) THEN 0 ELSE im.px[k]]]

\* np.array(img, dtype=np.float32) / 255.0
LetterToFloatHalved(u) == (u * One) \div 128
LetterToFloat(u) == (u * One) \div MaxU8

\* np.array(img): a PIL image of size (w, h) is an array of shape (h, w)
LetterArray(im) ==
    [shape |-> <<im.size[2], im.size[1]>>,
     data |-> [k \in 1..Len(im.px) |-> LetterToFloat(im.px[k])]]

\* lines 83-101: measure, centre, draw, convert, return
LetterDrawAndReturn ==
    /\ pc = "letter_draw"
    /\ \E b \in 0..MaxBearing :
          LET bbox == TextBBox(font, font_size, b)
              text_width == bbox[3] - bbox[1]
              text_height == bbox[4] - bbox[2]
              x == (width - text_width) \div 2 - bbox[1]
              y == (height - text_height) \div 2 - bbox[2]
          IN  img' = DrawText(img, x, y, bbox)
    /\ heap' = Append(heap, LetterArray(img'))
    /\ block_letter' = Len(heap) + 1
    /\ pc' = "letter_returned"
    /\ UNCHANGED <<heap0, raised, height, width, ratio_tenths, font_size, font,
                   font_idx, probes>>
    /\ UNCHANGED <<maskVars, memeVars>>

LetterIdle ==
    /\ height = 0
    /\ width = 0
    /\ ratio_tenths = 9
    /\ img = NoImage
    /\ font_size = 0
    /\ font = 0
    /\ font_idx = 0
    /\ probes = <<>>
    /\ block_letter = 0

LetterInputs ==
    /\ pc = "letter_entry"
    /\ heap = <<>>
    /\ heap0 = heap
    /\ raised = NoError
    /\ height \in -1..MaxSide
    /\ width \in -1..MaxSide
    /\ ratio_tenths \in {5, 9, 10}
    /\ img = NoImage
    /\ font_size = 0
    /\ font = 0
    /\ font_idx = 0
    /\ probes = <<>>
    /\ block_letter = 0

LetterNext ==
    \/ LetterNewImage
    \/ FontPathAbsent
    \/ FontPathExists
    \/ LetterFallbackFont
    \/ LetterDrawAndReturn

----------------------------------------------------------------------------
\* create_statistics_meme (src/create_meme.py)

\* Panel images of the model hold at most MaxPanelArea pixels.
MaxPanelArea == 2

\* The resize filter's output strays from the nearest source sample by at
\* most Ring 8-bit steps before it is clipped (LANCZOS has negative lobes).
Ring == 1

PanelShapes ==
    {s \in (1..MaxPanelArea) \X (1..MaxPanelArea) : s[1] * s[2] <= MaxPanelArea}

\* Two textures: flat 0.5, and 0.0 / 1.0 alternating.
Textures == {<<Half, Half>>, <<0, One>>}

Textured(shape, t) ==
    [shape |-> shape, data |-> [k \in 1..Area(shape) |-> t[1 + (k % 2)]]]

\* An array of four dimensions, which is no image.
NotAnImage == [shape |-> <<1, 1, 1, 1>>, data |-> <<Half>>]

PanelImages == {Textured(s, t) : s \in PanelShapes, t \in Textures} \cup {NotAnImage}
OriginalImages == {Textured(s, <<Half, Half>>) : s \in PanelShapes} \cup {NotAnImage}

\* matplotlib's colour names, as far as the model's callers use them
ValidColors == {"white", "pink"}

DpiValues == {72, 150}

\* plt.figure(figsize=(20, 7)), GridSpec(top=0.97, bottom=0.03),
\* set_title(fontsize=16, pad=2)
FigWidthIn == 20
FigHeightIn == 7
AxesTopPct == 97
AxesBottomPct == 3
TitleFontPt == 16
TitlePadPt == 2

Labels == <<"Reality", "Your Model", "Selection Bias", "Estimate">>
SeparatorPositions == <<25, 50, 75>>

NoFigure == [facecolor |-> "", panels |-> <<>>, titles |-> <<>>, separators |-> <<>>]
NoReport == [panel |-> <<>>, total |-> <<>>, dpi |-> 0]

\* h, w = original_img.shape unpacks a shape of exactly two dimensions
UnpackFails(shape) == Len(shape) # 2

\* lines 54-55
MemeReadShape ==
    /\ pc = "meme_entry"
    /\ heap0' = heap
    /\ IF UnpackFails(heap[args[1]].shape)
       THEN /\ raised' = [kind |-> "ValueError", shapes |-> <<heap[args[1]].shape>>]
            /\ pc' = "meme_raised"
            /\ UNCHANGED <<canon, step>>
       ELSE /\ canon' = heap[args[1]].shape
            /\ step' = 2
            /\ pc' = "meme_ensure"
            /\ UNCHANGED raised
    /\ UNCHANGED <<heap, args, panel_imgs, ensured, dpi, background_color, fig,
                   file, writes, report>>
    /\ UNCHANGED <<maskVars, letterVars>>

\* img.shape != (target_h, target_w)
NeedsResize(a, target_h, target_w) == a.shape # <<target_h, target_w>>

\* (img * 255).astype(np.uint8): truncation, into 8 bits
ToUint8(x) == ((x * MaxU8) \div One) % (MaxU8 + 1)

\* Image.fromarray takes arrays of at most three dimensions; an array of
\* shape (rows, columns) is an image of size (columns, rows)
FromArrayRefuses(a) == Len(a.shape) > 3
FromArray(a) ==
    [size |-> <<a.shape[2], a.shape[1]>>,
     px |-> [k \in 1..Len(a.data) |-> ToUint8(a.data[k])]]

\* the size handed to img_pil.resize: (target_w, target_h)
ResizeTargetTransposed(target_h, target_w) == <<target_h, target_w>>
ResizeTarget(target_h, target_w) == <<target_w, target_h>>

Clip8(v) == IF v < 0 THEN 0 ELSE IF v > MaxU8 THEN MaxU8 ELSE v

\* img_pil.resize(size, LANCZOS): every output pixel is the filter's value
\* there (the nearest source sample plus the ringing e), clipped to 8 bits
PilResize(im, size, e) ==
    [size |-> size,
     px |-> [k \in 1..(size[1] * size[2]) |->
               LET r == (k - 1) \div size[1]
                   c == (k - 1) % size[1]
                   sr == (r * im.size[2]) \div size[2]
                   sc == (c * im.size[1]) \div size[1]
               IN  Clip8(im.px[sr * im.size[1] + sc + 1] + e)]]

\* np.array(img_resized, dtype=np.float32) / 255.0
MemeToFloatUnscaled(u) == u * One
MemeToFloat(u) == (u * One) \div MaxU8

ToArray(im) ==
    [shape |-> <<im.size[2], im.size[1]>>,
     data |-> [k \in 1..Len(im.px) |-> MemeToFloat(im.px[k])]]

AfterEnsure ==
    /\ step' = step + 1
    /\ pc' = IF step = 4 THEN "meme_figure" ELSE "meme_ensure"

\* ensure_size, lines 60 and 68: the shape matches, the image is handed back
EnsureSizeKeeps ==
    /\ pc = "meme_ensure"
    /\ ~NeedsResize(heap[panel_imgs[step]], canon[1], canon[2])
    /\ ensured' = Append(ensured, [given |-> panel_imgs[step], got |-> panel_imgs[step]])
    /\ AfterEnsure
    /\ UNCHANGED <<heap, heap0, raised, args, panel_imgs, canon, dpi,
                   background_color, fig, file, writes, report>>
    /\ UNCHANGED <<maskVars, letterVars>>

\* ensure_size, lines 60-67: the image is resized, the local name rebound
EnsureSizeResizes ==
    /\ pc = "meme_ensure"
    /\ NeedsResize(heap[panel_imgs[step]], canon[1], canon[2])
    /\ ~FromArrayRefuses(heap[panel_imgs[step]])
    /\ \E e \in {-Ring, 0, Ring} :
          LET img_pil == FromArray(heap[panel_imgs[step]])
              img_resized == PilResize(img_pil, ResizeTarget(canon[1], canon[2]), e)
          IN  heap' = Append(heap, ToArray(img_resized))
    /\ panel_imgs' = [panel_imgs EXCEPT ![step] = Len(heap) + 1]
    /\ ensured' = Append(ensured, [given |-> panel_imgs[step], got |-> Len(heap) + 1])
    /\ AfterEnsure
    /\ UNCHANGED <<heap0, raised, args, canon, dpi, background_color, fig, file,
                   writes, report>>
    /\ UNCHANGED <<maskVars, letterVars>>

\* ensure_size, line 64: Image.fromarray raises, nothing catches it
EnsureSizeFails ==
    /\ pc = "meme_ensure"
    /\ NeedsResize(heap[panel_imgs[step]], canon[1], canon[2])
    /\ FromArrayRefuses(heap[panel_imgs[step]])
    /\ raised' = [kind |-> "ValueError", shapes |-> <<heap[panel_imgs[step]].shape>>]
    /\ pc' = "meme_raised"
    /\ UNCHANGED <<heap, heap0, args, panel_imgs, canon, step, ensured, dpi,
                   background_color, fig, file, writes, report>>
    /\ UNCHANGED <<maskVars, letterVars>>

\* lines 75-82: plt.figure(facecolor=background_color) raises for a colour
\* matplotlib does not know
MemeFigure ==
    /\ pc = "meme_figure"
    /\ IF background_color \in ValidColors
       THEN /\ fig' = [NoFigure EXCEPT !.facecolor = background_color]
            /\ step' = 1
            /\ pc' = "meme_panels"
            /\ UNCHANGED raised
       ELSE /\ raised' = [kind |-> "ValueError", shapes |-> <<>>]
            /\ pc' = "meme_raised"
            /\ UNCHANGED <<fig, step>>
    /\ UNCHANGED <<heap, heap0, args, panel_imgs, canon, ensured, dpi,
                   background_color, file, writes, report>>
    /\ UNCHANGED <<maskVars, letterVars>>

\* lines 85-89, one iteration: add_subplot, imshow, set_title
MemeAddPanel ==
    /\ pc = "meme_panels"
    /\ fig' = [fig EXCEPT !.panels = Append(@, panel_imgs[step]),
                          !.titles = Append(@, Labels[step])]
    /\ IF step = Len(Labels)
       THEN step' = 1 /\ pc' = "meme_separators"
       ELSE step' = step + 1 /\ UNCHANGED pc
    /\ UNCHANGED <<heap, heap0, raised, args, panel_imgs, canon, ensured, dpi,
                   background_color, file, writes, report>>
    /\ UNCHANGED <<maskVars, letterVars>>

\* lines 92-99, one iteration: a separator line at x_pos
MemeAddSeparator ==
    /\ pc = "meme_separators"
    /\ fig' = [fig EXCEPT !.separators = Append(@, SeparatorPositions[step])]
    /\ IF step = Len(SeparatorPositions)
       THEN step' = 0 /\ pc' = "meme_save"
       ELSE step' = step + 1 /\ UNCHANGED pc
    /\ UNCHANGED <<heap, heap0, raised, args, panel_imgs, canon, ensured, dpi,
                   background_color, file, writes, report>>
    /\ UNCHANGED <<maskVars, letterVars>>

\* The raster savefig writes: the figure's 20 x 7 inches at dpi, cut to the
\* tight bounding box (the axes from 3% to 97% of the height, and the titles
\* above them).  The panel images' own pixel counts do not enter.
SavedWidth(d) == FigWidthIn * d
SavedHeight(d) ==
    ((AxesTopPct - AxesBottomPct) * FigHeightIn * d) \div 100
        + ((TitlePadPt + TitleFontPt) * d) \div 72

\* lines 101-103: savefig raises before it opens output_path (a directory
\* that is not there, a format it does not write)
MemeSaveRefused ==
    /\ pc = "meme_save"
    /\ raised' = [kind |-> "OSError", shapes |-> <<>>]
    /\ pc' = "meme_raised"
    /\ UNCHANGED <<heap, heap0, args, panel_imgs, canon, step, ensured, dpi,
                   background_color, fig, file, writes, report>>
    /\ UNCHANGED <<maskVars, letterVars>>

\* lines 101-103: savefig opens output_path for writing (which empties a file
\* that was there) and the write fails part way (the device fills up).  The
\* image library removes the file only if the open created it; the function
\* itself catches nothing and cleans nothing up.
MemeSaveBreaks ==
    /\ pc = "meme_save"
    /\ writes' = writes + 1
    /\ file' = IF file.state = "absent" THEN file
               ELSE [state |-> "partial", width |-> 0, height |-> 0]
    /\ raised' = [kind |-> "OSError", shapes |-> <<>>]
    /\ pc' = "meme_raised"
    /\ UNCHANGED <<heap, heap0, args, panel_imgs, canon, step, ensured, dpi,
                   background_color, fig, report>>
    /\ UNCHANGED <<maskVars, letterVars>>

\* lines 101-104: the file is written whole, the figure closed
MemeSaveWrites ==
    /\ pc = "meme_save"
    /\ writes' = writes + 1
    /\ file' = [state |-> "complete", width |-> SavedWidth(dpi),
                height |-> SavedHeight(dpi)]
    /\ pc' = "meme_report"
    /\ UNCHANGED <<heap, heap0, raised, args, panel_imgs, canon, step, ensured,
                   dpi, background_color, fig, report>>
    /\ UNCHANGED <<maskVars, letterVars>>

\* lines 106-109: the printed summary
MemeReport ==
    /\ pc = "meme_report"
    /\ report' = [panel |-> <<canon[2], canon[1]>>,
                  total |-> <<canon[2] * 4, canon[1]>>,
                  dpi |-> dpi]
    /\ pc' = "meme_done"
    /\ UNCHANGED <<heap, heap0, raised, args, panel_imgs, canon, step, ensured,
                   dpi, background_color, fig, file, writes>>
    /\ UNCHANGED <<maskVars, letterVars>>

NoFile == [state |-> "absent", width |-> 0, height |-> 0]
OldFile == [state |-> "old", width |-> 1, height |-> 1]

MemeIdle ==
    /\ args = <<>>
    /\ panel_imgs = <<>>
    /\ canon = <<>>
    /\ step = 0
    /\ ensured = <<>>
    /\ dpi = 150
    /\ background_color = "white"
    /\ fig = NoFigure
    /\ file = NoFile
    /\ writes = 0
    /\ report = NoReport

MemeInputs ==
    /\ pc = "meme_entry"
    /\ \E o \in OriginalImages, a \in PanelImages, b \in PanelImages,
          c \in PanelImages : heap = <<o, a, b, c>>
    /\ heap0 = heap
    /\ raised = NoError
    /\ args = <<1, 2, 3, 4>>
    /\ panel_imgs = args
    /\ canon = <<>>
    /\ step = 0
    /\ ensured = <<>>
    /\ dpi \in DpiValues
    /\ background_color \in {"white", "no-such-colour"}
    /\ fig = NoFigure
    /\ file \in {NoFile, OldFile}
    /\ writes = 0
    /\ report = NoReport

MemeNext ==
    \/ MemeReadShape
    \/ EnsureSizeKeeps
    \/ EnsureSizeResizes
    \/ EnsureSizeFails
    \/ MemeFigure
    \/ MemeAddPanel
    \/ MemeAddSeparator
    \/ MemeSaveRefused
    \/ MemeSaveBreaks
    \/ MemeSaveWrites
    \/ MemeReport

----------------------------------------------------------------------------
\* Specifications: one per entry point, and all three together

MaskInit == MaskInputs /\ LetterIdle /\ MemeIdle
LetterInit == LetterInputs /\ MaskIdle /\ MemeIdle
MemeInit == MemeInputs /\ MaskIdle /\ LetterIdle

SpecMask == MaskInit /\ [][MaskNext]_vars
SpecLetter == LetterInit /\ [][LetterNext]_vars
SpecMeme == MemeInit /\ [][MemeNext]_vars

Init == MaskInit \/ LetterInit \/ MemeInit
Next == MaskNext \/ LetterNext \/ MemeNext
Spec == Init /\ [][Next]_vars

----------------------------------------------------------------------------
\* Properties of create_masked_stipple, under SpecMask

MaskCallOver == pc \in {"mask_returned", "mask_raised", "mask_written"}

\* C1: a call on a stipple image S and a mask M of one shape returns, and
\* what it returns has S's shape and holds 1.0 where M < threshold and S's
\* pixel everywhere else (so also where M equals the threshold); the call
\* raises only when the shapes differ.
C1_MaskedPixels ==
    /\ pc = "mask_returned" =>
          LET S == heap0[stipple_img]
              M == heap0[mask_img]
              R == heap[masked_stipple]
          IN  /\ R.shape = S.shape
              /\ Len(R.data) = Len(S.data)
              /\ \A k \in 1..Len(S.data) :
                    R.data[k] = IF M.data[k] < threshold THEN One ELSE S.data[k]
    /\ pc = "mask_raised" => heap0[stipple_img].shape # heap0[mask_img].shape

\* A returned image with a dark stipple kept under a mask pixel equal to the
\* threshold, and another dark stipple erased under a mask pixel below it.
C1_Witness ==
    /\ pc = "mask_returned"
    /\ \E k, j \in 1..Len(heap[masked_stipple].data) :
          /\ heap0[mask_img].data[k] = threshold
          /\ heap0[stipple_img].data[k] = 0
          /\ heap[masked_stipple].data[k] = 0
          /\ heap0[mask_img].data[j] < threshold
          /\ heap0[stipple_img].data[j] = 0
          /\ heap[masked_stipple].data[j] = One

\* C2: when the two shapes differ the call ends in a ValueError that names
\* both shapes, returns nothing, and has neither copied nor masked anything
\* (the heap is as it was on entry).
C2_ShapeMismatchFailsFast ==
    (MaskCallOver /\ heap0[stipple_img].shape # heap0[mask_img].shape) =>
        /\ pc = "mask_raised"
        /\ raised = [kind |-> "ValueError",
                     shapes |-> <<heap0[stipple_img].shape, heap0[mask_img].shape>>]
        /\ masked_stipple = 0
        /\ heap = heap0

\* A failed call on two images of the same height and different widths.
C2_Witness ==
    /\ pc = "mask_raised"
    /\ heap0[stipple_img].shape[1] = heap0[mask_img].shape[1]
    /\ heap0[stipple_img].shape[2] < heap0[mask_img].shape[2]

\* C3: after a call, and after the caller's later write to the result, the
\* stipple image and the mask hold what they held on entry, and the result
\* is an array of its own.
C3_InputsNotMutated ==
    MaskCallOver =>
        /\ heap[stipple_img] = heap0[stipple_img]
        /\ heap[mask_img] = heap0[mask_img]
        /\ masked_stipple # 0 => masked_stipple \notin {stipple_img, mask_img}

\* The mask erased a stipple, and the caller then overwrote a pixel the mask
\* had kept.
C3_Witness ==
    /\ pc = "mask_written"
    /\ \E k, j \in 1..Len(heap[masked_stipple].data) :
          /\ heap0[mask_img].data[k] >= threshold
          /\ heap[masked_stipple].data[k] # heap[stipple_img].data[k]
          /\ heap0[mask_img].data[j] < threshold
          /\ heap[stipple_img].data[j] # One

\* C4: applying the same mask and threshold to the result of an application
\* gives that result again, pixel for pixel.
C4_Idempotent ==
    (pc = "mask_returned" /\ round = 2) => heap[masked_stipple] = prev

\* A second application whose first one erased some stipples and kept others.
C4_Witness ==
    /\ pc = "mask_returned"
    /\ round = 2
    /\ prev # heap[1]
    /\ \E k \in 1..Len(prev.data) : prev.data[k] # One

----------------------------------------------------------------------------
\* Properties of create_block_letter_s, under SpecLetter

LetterFontChosen == pc \in {"letter_draw", "letter_returned"}

\* C7 (as claimed): a call with height <= 0 or width <= 0 does not return
\* an image.
C7_NonPositiveSideRejected ==
    pc = "letter_returned" => (height > 0 /\ width > 0)

\* C10: the loop visits font_paths in list order without skipping any; a
\* path that loaded is the last one visited and is the font in use, every
\* path before it was absent or failed to load; when none loaded all were
\* visited and the font is the by-name or the built-in one; past the font
\* search a font is always selected; with positive sides nothing raises, a
\* step is possible until the function has returned, and the array returned
\* has shape (height, width).
C10_FontFallback ==
    /\ \A k \in 1..Len(probes) : probes[k].path = k
    /\ \A k \in 1..Len(probes) :
          probes[k].found = "loaded" => (k = Len(probes) /\ font = k)
    /\ (LetterFontChosen /\ \A k \in 1..Len(probes) : probes[k].found # "loaded")
          => (Len(probes) = NumFontPaths /\ font \in {ArialByName, DefaultFont})
    /\ LetterFontChosen => font # 0
    /\ (height > 0 /\ width > 0) =>
          /\ pc # "letter_raised"
          /\ pc # "letter_returned" => ENABLED LetterNext
    /\ pc = "letter_returned" =>
          /\ heap[block_letter].shape = <<height, width>>
          /\ Len(heap[block_letter].data) = height * width

\* A returned image whose font is a path reached past an absent path and a
\* path that failed to load, with paths left untried after it.
C10_Witness ==
    /\ pc = "letter_returned"
    /\ height > 0 /\ width > 0
    /\ font = Len(probes)
    /\ font < NumFontPaths
    /\ \E k, j \in 1..Len(probes) :
          probes[k].found = "failed" /\ probes[j].found = "absent"

----------------------------------------------------------------------------
\* Properties of create_statistics_meme, under SpecMeme

MemeLayoutEntered ==
    pc \in {"meme_panels", "meme_separators", "meme_save", "meme_report", "meme_done"}

\* C5: the canonical shape is the original's, and the original is passed on
\* untouched; the k-th reconciliation is given the k-th of the other three
\* arguments and gives back that same array, unchanged, if its shape is the
\* canonical one, and otherwise a new array of exactly the canonical shape;
\* all four panels that enter the layout have the canonical shape.
C5_Reconciliation ==
    /\ canon # <<>> =>
          /\ canon = heap0[args[1]].shape
          /\ panel_imgs[1] = args[1]
          /\ heap[args[1]] = heap0[args[1]]
    /\ \A k \in 1..Len(ensured) :
          LET g == ensured[k].given
              r == ensured[k].got
          IN  /\ g = args[k + 1]
              /\ panel_imgs[k + 1] = r
              /\ IF heap0[g].shape = canon
                 THEN r = g /\ heap[r] = heap0[g]
                 ELSE /\ r # g
                      /\ heap[r].shape = canon
                      /\ Len(heap[r].data) = canon[1] * canon[2]
    /\ MemeLayoutEntered =>
          /\ Len(ensured) = 3
          /\ \A i \in 1..4 : heap[panel_imgs[i]].shape = canon
    /\ \A i \in 1..Len(fig.panels) : fig.panels[i] = panel_imgs[i]

\* A layout whose second panel was kept as given and whose third panel was
\* resized from the transposed shape of a canonical shape that is not square.
C5_Witness ==
    /\ MemeLayoutEntered
    /\ canon[1] # canon[2]
    /\ ensured[1].got = ensured[1].given
    /\ ensured[2].got # ensured[2].given
    /\ heap[ensured[2].given].shape = <<canon[2], canon[1]>>

Abs(x) == IF x < 0 THEN -x ELSE x

\* The height the layout reserves for titles and margins, in pixels.
TitleMargin(h, d) ==
    ((100 - AxesTopPct + AxesBottomPct) * h) \div 100
        + ((TitlePadPt + TitleFontPt) * d) \div 72

\* C6 (as claimed): after a successful run the file exists, is not empty, is
\* 4 * w pixels wide and, up to the title margin, h pixels high, and that is
\* the total size the summary reports.
C6_FileIsFourPanelsWide ==
    pc = "meme_done" =>
        /\ file.state = "complete"
        /\ file.width > 0 /\ file.height > 0
        /\ file.width = 4 * canon[2]
        /\ Abs(file.height - canon[1]) <= TitleMargin(canon[1], dpi)
        /\ report.total = <<4 * canon[2], canon[1]>>

MemeBuilt ==
    /\ Len(ensured) = 3
    /\ Len(fig.panels) = 4
    /\ Len(fig.separators) = 3

\* C8 (as claimed): a run that failed leaves no partial file at output_path;
\* output_path is not opened for writing before the three reconciliations,
\* the four panels and the three separators are done; a run that succeeded
\* wrote one complete file, once.
C8_NoPartialOutput ==
    /\ pc = "meme_raised" => file.state # "partial"
    /\ writes > 0 => MemeBuilt
    /\ pc \in {"meme_report", "meme_done"} => (writes = 1 /\ file.state = "complete")

----------------------------------------------------------------------------
\* Properties of all three, under Spec

\* C9: every pixel of every array, the ones the three functions produce
\* included, lies in [0, 1].
C9_PixelsInRange ==
    \A id \in 1..Len(heap) :
        \A k \in 1..Len(heap[id].data) :
            0 <= heap[id].data[k] /\ heap[id].data[k] <= One

\* A panel that went through the 8-bit round trip and the resize: given
\* pixels of 0.5 and 1.0 it holds one that came back below 0.5 and one that
\* the clipping held at 1.0.
C9_Witness ==
    /\ pc = "meme_done"
    /\ \E n \in 1..Len(ensured) :
          /\ ensured[n].got # ensured[n].given
          /\ \E k \in 1..Len(heap[ensured[n].got].data) :
                heap[ensured[n].got].data[k] = One
    /\ \E n \in 1..Len(ensured) :
          /\ ensured[n].got # ensured[n].given
          /\ \A k \in 1..Len(heap[ensured[n].given].data) :
                heap[ensured[n].given].data[k] = Half
          /\ \E k \in 1..Len(heap[ensured[n].got].data) :
                heap[ensured[n].got].data[k] < Half

====
